---- MODULE Spec2Model ----
(***************************************************************************)
(* A model of hyper-json-server: JsonServer<S> wraps a hyper Service S     *)
(* whose Request is DeserializeOwned, whose Response is Serialize and      *)
(* whose Error converts into the error_chain Error of src/server.rs.       *)
(*                                                                         *)
(* The wrapped service is instantiated with Request = u64 and a Response   *)
(* type that serialises as a JSON number, a JSON string, or fails to       *)
(* serialise (a map whose keys are not strings).                           *)
(*                                                                         *)
(* Bytes are one-character strings; a byte buffer is a sequence of bytes.  *)
(* A text (a Rust String) is a sequence of tokens, each either a run of    *)
(* characters that JSON does not escape or the single character ".        *)
(***************************************************************************)
EXTENDS Integers, Sequences, FiniteSets, TLC

\* Number of requests handed to one adapter.
NumReqs == 2
\* Largest number of chunks a request body stream yields.
MaxChunks == 2

Reqs == 1..NumReqs

None == [t |-> "none"]

\* ----------------------------------------------------------------------
\* Texts and their JSON string encoding

Quote == "\""

RECURSIVE Flat(_)
\* The characters of a text, as one string.
Flat(text) ==
    IF text = <<>> THEN "" ELSE Head(text) \o Flat(Tail(text))

\* serde_json's escaping of one token inside a JSON string.
EscapeTok(tok) ==
    IF tok = Quote THEN "\\\"" ELSE tok

RECURSIVE Escaped(_)
Escaped(text) ==
    IF text = <<>> THEN "" ELSE EscapeTok(Head(text)) \o Escaped(Tail(text))

\* A text serialised as a JSON string.
JsonString(text) ==
    Quote \o Escaped(text) \o Quote

Digits == <<"0", "1", "2", "3", "4", "5", "6", "7", "8", "9">>

RECURSIVE Decimal(_)
\* An unsigned integer formatted in decimal.
Decimal(n) ==
    IF n < 10 THEN Digits[n + 1]
    ELSE Decimal(n \div 10) \o Digits[(n % 10) + 1]

\* ----------------------------------------------------------------------
\* error_chain! errors

NotFound(obj) == [kind |-> "NotFound", detail |-> obj]
InternalError(s) == [kind |-> "InternalError", detail |-> s]
BadRequest(s) == [kind |-> "BadRequest", detail |-> s]
MethodNotAllowed == [kind |-> "MethodNotAllowed", detail |-> <<>>]
\* error_chain's built-in string error kind
Msg(s) == [kind |-> "Msg", detail |-> s]

\* The display(...) text of an error.
Display(error) ==
    CASE error.kind = "NotFound" -> <<"object ">> \o error.detail \o <<" not found">>
      [] error.kind = "InternalError" -> <<"internal server error ">> \o error.detail
      [] error.kind = "BadRequest" -> <<"bad request ">> \o error.detail
      [] error.kind = "MethodNotAllowed" -> <<"method not allowed">>
      [] OTHER -> error.detail

\* ----------------------------------------------------------------------
\* Responses

StatusOk == 200
StatusBadRequest == 400
StatusNotFound == 404
StatusInternalServerError == 500

ContentTypeJson == "application/json"

\* Response::new().with_body(body).with_header(ContentLength(len))
\*     .with_header(ContentType::json()).with_status(status)
MkResponse(status, body, len) ==
    [status |-> status, body |-> body, content_length |-> len,
     content_type |-> ContentTypeJson]
\* ErrorStatus with the NotFound arm left to the fallback arm.
ErrorStatusNoNotFound(error) ==
    CASE error.kind = "BadRequest" -> StatusBadRequest
      [] OTHER -> StatusInternalServerError
\* ErrorStatus with the fallback arm answering as for a bad request.
ErrorStatusFallback400(error) ==
    CASE error.kind = "NotFound" -> StatusNotFound
      [] error.kind = "InternalError" -> StatusInternalServerError
      [] OTHER -> StatusBadRequest

\* The status chosen by the match of error_to_response.
ErrorStatus(error) ==
    CASE error.kind = "NotFound" -> StatusNotFound
      [] error.kind = "BadRequest" -> StatusBadRequest
      [] error.kind = "InternalError" -> StatusInternalServerError
      [] OTHER -> StatusInternalServerError
\* ErrorEnvelope with the message sent as it is, outside any JSON object.
ErrorEnvelopeRaw(text) == Flat(text)

\* json!({"error": body}).to_string()
ErrorEnvelope(text) ==
    "{\"error\":" \o JsonString(text) \o "}"
\* ErrorBodyLen taken from the message before it is JSON-escaped.
ErrorBodyLenUnescaped(text) ==
    Len("{\"error\":\"") + Len(Flat(text)) + Len("\"}")

\* body.len() of the envelope String
ErrorBodyLen(text) ==
    Len(ErrorEnvelope(text))

error_to_response(error) ==
    MkResponse(ErrorStatus(error), ErrorEnvelope(Display(error)),
               ErrorBodyLen(Display(error)))

\* ----------------------------------------------------------------------
\* The codec: serde_json::from_slice::<u64> and serde_json::to_vec

IsDigit(b) == \E i \in 1..10 : Digits[i] = b
DigitVal(b) == (CHOOSE i \in 1..10 : Digits[i] = b) - 1

At(n) == <<" at line 1 column " \o Decimal(n)>>

RECURSIVE DigitsEnd(_, _)
\* The index after the run of digits of body that starts at i.
DigitsEnd(body, i) ==
    IF i <= Len(body) /\ IsDigit(body[i]) THEN DigitsEnd(body, i + 1) ELSE i

RECURSIVE NumVal(_, _, _)
\* The value of the digits body[i..j-1].
NumVal(body, i, j) ==
    IF j <= i THEN 0 ELSE NumVal(body, i, j - 1) * 10 + DigitVal(body[j - 1])

RECURSIVE StrEnd(_, _)
\* The index of the quote closing the string whose content starts at i,
\* or 0 when the buffer ends first.
StrEnd(body, i) ==
    IF i > Len(body) THEN 0
    ELSE IF body[i] = Quote THEN i ELSE StrEnd(body, i + 1)

\* The content body[i..j-1] of a string, as a text.
StrText(body, i, j) == [k \in 1..(j - i) |-> body[i + k - 1]]

\* serde_json::from_slice::<u64>(body), the error as its to_string() text.
FromSlice(body) ==
    IF body = <<>>
    THEN [ok |-> FALSE, err |-> <<"EOF while parsing a value">> \o At(0)]
    ELSE IF IsDigit(body[1])
    THEN LET j == DigitsEnd(body, 1)
         IN  IF j <= Len(body)
             THEN [ok |-> FALSE, err |-> <<"trailing characters">> \o At(j)]
             ELSE [ok |-> TRUE, val |-> NumVal(body, 1, j)]
    ELSE IF body[1] = Quote
    THEN LET j == StrEnd(body, 2)
         IN  IF j = 0
             THEN [ok |-> FALSE,
                   err |-> <<"EOF while parsing a string">> \o At(Len(body))]
             ELSE [ok |-> FALSE,
                   err |-> <<"invalid type: string ", Quote>>
                           \o StrText(body, 2, j)
                           \o <<Quote, ", expected u64">> \o At(j)]
    ELSE [ok |-> FALSE, err |-> <<"expected value">> \o At(1)]
\* Decode with the failure filed under the wrong kind.
DecodeWrongKind(body) ==
    LET r == FromSlice(body)
    IN  IF r.ok THEN [t |-> "Ok", val |-> r.val]
        ELSE [t |-> "Err", err |-> InternalError(r.err)]

\* The closure returned by JsonService::deserialize.
Decode(body) ==
    LET r == FromSlice(body)
    IN  IF r.ok THEN [t |-> "Ok", val |-> r.val]
        ELSE [t |-> "Err", err |-> BadRequest(r.err)]

\* serde_json::to_vec(&res): the bytes, or an error for a value that has
\* no JSON form.
ToVec(res) ==
    CASE res.t = "num" -> [ok |-> TRUE, bytes |-> Decimal(res.n)]
      [] res.t = "str" -> [ok |-> TRUE, bytes |-> JsonString(res.s)]
      [] OTHER -> [ok |-> FALSE]

\* <S as Service>::Error: Into<Error>, for the error type of the wrapped
\* service: each of its variants converts into one kind of Error.
IntoError(e) ==
    CASE e.tag = "Missing" -> NotFound(e.what)
      [] e.tag = "Invalid" -> BadRequest(e.what)
      [] e.tag = "Backend" -> InternalError(e.what)
      [] e.tag = "Forbidden" -> MethodNotAllowed
      [] OTHER -> Msg(e.what)
\* Serialize with a handler error encoded as JSON null instead of passed on.
SerializeErrAsNull(res) ==
    IF res.t = "Err" THEN [t |-> "Ok", bytes |-> "null"]
    ELSE LET v == ToVec(res.val)
         IN  IF v.ok THEN [t |-> "Ok", bytes |-> v.bytes]
             ELSE [t |-> "Panic"]

\* JsonService::serialize: Ok(bytes), Err(e.into()), or the panic of unwrap().
Serialize(res) ==
    IF res.t = "Err" THEN [t |-> "Err", err |-> IntoError(res.err)]
    ELSE LET v == ToVec(res.val)
         IN  IF v.ok THEN [t |-> "Ok", bytes |-> v.bytes]
             ELSE [t |-> "Panic"]

\* ----------------------------------------------------------------------
\* Inputs

Methods == {"Post", "Get"}

\* The chunks a body stream may yield.
Chunks == {<<"4">>, <<Quote>>}

\* hyper::Error texts of a failing body stream.
TransportErrors == {<<"message is incomplete">>}

\* What the wrapped service's future may resolve to: Ok(response) or Err(e).
HandlerOutputs ==
    {[t |-> "num", n |-> 7], [t |-> "str", s |-> <<"a", Quote, "b">>],
     [t |-> "badmap"]}
HandlerErrors ==
    {[tag |-> "Missing", what |-> <<"widget">>],
     [tag |-> "Invalid", what |-> <<"id">>],
     [tag |-> "Backend", what |-> <<"db">>],
     [tag |-> "Forbidden", what |-> <<>>],
     [tag |-> "Other", what |-> <<"boom">>]}
HandlerResults ==
    {[t |-> "Ok", val |-> v] : v \in HandlerOutputs}
    \cup {[t |-> "Err", err |-> e] : e \in HandlerErrors}

\* ----------------------------------------------------------------------
\* State

VARIABLES
    inner,     \* JsonServer.inner: the Arc<S>, its service and strong count
    method,    \* per request: the method of the request handed to call
    pc,        \* per request: where the future returned by call stands
    buf,       \* per request: the bytes concat2 has accumulated
    nchunks,   \* per request: the chunks the body stream has yielded
    chunks,    \* per request: those chunks, in the order they came
    concat,    \* per request: what the concat2 future resolved to
    decoded,   \* per request: what the decode function returned
    hres,      \* per request: what the service's future resolved to
    resp,      \* per request: the response the future resolves to
    emitted,   \* per request: the responses handed back to the transport
    log        \* per request: the pipeline steps started and completed

vars ==
    <<inner, method, pc, buf, nchunks, chunks, concat, decoded, hres, resp,
      emitted, log>>

Ev(step, what) == <<step, what>>

Init ==
    /\ inner = [svc |-> "S", strong |-> 1]
    /\ method = [r \in Reqs |-> "none"]
    /\ pc = [r \in Reqs |-> "idle"]
    /\ buf = [r \in Reqs |-> <<>>]
    /\ nchunks = [r \in Reqs |-> 0]
    /\ chunks = [r \in Reqs |-> <<>>]
    /\ concat = [r \in Reqs |-> None]
    /\ decoded = [r \in Reqs |-> None]
    /\ hres = [r \in Reqs |-> None]
    /\ resp = [r \in Reqs |-> None]
    /\ emitted = [r \in Reqs |-> 0]
    /\ log = [r \in Reqs |-> <<>>]
\* Resolve with a retry of the body read after an InternalServerError.
ResolveRetry(r, response, events) ==
    /\ pc' = [pc EXCEPT ![r] =
                 IF response.status = StatusInternalServerError
                 THEN "reading" ELSE "done"]
    /\ resp' = [resp EXCEPT ![r] = response]
    /\ emitted' = [emitted EXCEPT ![r] = @ + 1]
    /\ log' = [log EXCEPT ![r] = @ \o events]
    /\ buf' = [buf EXCEPT ![r] = <<>>]
    /\ inner' = [inner EXCEPT !.strong = @ - 1]

\* The future of request r resolves to response: Ok(response) goes back to
\* the transport, and the closures holding the Arc clone are dropped.
Resolve(r, response, events) ==
    /\ pc' = [pc EXCEPT ![r] = "done"]
    /\ resp' = [resp EXCEPT ![r] = response]
    /\ emitted' = [emitted EXCEPT ![r] = @ + 1]
    /\ log' = [log EXCEPT ![r] = @ \o events]
    /\ buf' = [buf EXCEPT ![r] = <<>>]
    /\ inner' = [inner EXCEPT !.strong = @ - 1]
\* IsPost letting GET through as well.
IsPostOrGet(m) == m \in {"Post", "Get"}

\* *req.method() == Method::Post
IsPost(m) == m = "Post"

\* JsonServer::call(req) with method m.
Call(r, m) ==
    /\ pc[r] = "idle"
    /\ method' = [method EXCEPT ![r] = m]
    /\ IF IsPost(m)
       THEN \* service.deserialize(..) is Ok(f); the body read is set up
            /\ pc' = [pc EXCEPT ![r] = "reading"]
            /\ inner' = [inner EXCEPT !.strong = @ + 1]
            /\ log' = [log EXCEPT ![r] =
                          <<Ev("method", "start"), Ev("method", "ok"),
                            Ev("read", "start")>>]
            /\ UNCHANGED resp
       ELSE \* the clone of inner is dropped when call returns
            /\ pc' = [pc EXCEPT ![r] = "ready"]
            /\ resp' = [resp EXCEPT ![r] = error_to_response(MethodNotAllowed)]
            /\ log' = [log EXCEPT ![r] =
                          <<Ev("method", "start"), Ev("method", "err")>>]
            /\ UNCHANGED inner
    /\ UNCHANGED <<buf, nchunks, chunks, concat, decoded, hres, emitted>>

\* The transport polls the future::ok built by call for a non-POST request.
PollReady(r) ==
    /\ pc[r] = "ready"
    /\ pc' = [pc EXCEPT ![r] = "done"]
    /\ emitted' = [emitted EXCEPT ![r] = @ + 1]
    /\ UNCHANGED <<inner, method, buf, nchunks, chunks, concat, decoded, hres,
                   resp, log>>
\* Concat2 with the new chunk put in front of what has been read.
Concat2Prepend(acc, c) == c \o acc

\* concat2: the chunk is appended to what has been read.
Concat2(acc, c) == acc \o c

\* The body stream yields chunk c; concat2 appends it.
BodyChunk(r, c) ==
    /\ pc[r] = "reading"
    /\ nchunks[r] < MaxChunks
    /\ buf' = [buf EXCEPT ![r] = Concat2(@, c)]
    /\ nchunks' = [nchunks EXCEPT ![r] = @ + 1]
    /\ chunks' = [chunks EXCEPT ![r] = Append(@, c)]
    /\ UNCHANGED <<inner, method, pc, concat, decoded, hres, resp, emitted,
                   log>>
RECURSIVE AllBufs(_)
AllBufs(n) == IF n = 0 THEN <<>> ELSE AllBufs(n - 1) \o buf[n]

\* BodyOf with one accumulation buffer shared by the requests in flight.
BodyOfShared(r) == AllBufs(NumReqs)

\* The buffer concat2 hands on for request r: req.body().concat2()
BodyOf(r) == buf[r]
\* then() in place of and_then(): the closure runs on Err too.
AndThenAlways(res) == TRUE

\* and_then runs its closure on Ok only.
AndThen(res) == res.t = "Ok"

\* The body stream ends: concat2 resolves, and_then runs the decode function
\* f on the whole buffer; Ok(req) starts service.call(req), Err(e) goes to
\* or_else.
BodyEnd(r) ==
    /\ pc[r] = "reading"
    /\ concat' = [concat EXCEPT ![r] = [t |-> "Ok", body |-> buf[r]]]
    /\ LET d == Decode(BodyOf(r))
           events == <<Ev("read", "ok"), Ev("decode", "start"),
                       Ev("decode", IF d.t = "Ok" THEN "ok" ELSE "err")>>
       IN  /\ decoded' = [decoded EXCEPT ![r] = d]
           /\ IF AndThen(d)
              THEN /\ pc' = [pc EXCEPT ![r] = "invoking"]
                   /\ buf' = [buf EXCEPT ![r] = <<>>]
                   /\ log' = [log EXCEPT ![r] =
                                 @ \o events \o <<Ev("invoke", "start")>>]
                   /\ UNCHANGED <<inner, resp, emitted>>
              ELSE Resolve(r, error_to_response(d.err), events)
    /\ UNCHANGED <<method, nchunks, chunks, hres>>
\* MapErr with the stream failure filed as a bad request.
MapErrBadRequest(e) == BadRequest(e)

\* map_err(move |e| ErrorKind::InternalError(e.to_string()).into())
MapErr(e) == InternalError(e)

\* The body stream fails with transport error e: map_err makes it an
\* InternalError, and_then is skipped, or_else answers.
BodyError(r, e) ==
    /\ pc[r] = "reading"
    /\ concat' = [concat EXCEPT ![r] = [t |-> "Err", err |-> e]]
    /\ Resolve(r, error_to_response(MapErr(e)), <<Ev("read", "err")>>)
    /\ UNCHANGED <<method, nchunks, chunks, decoded, hres>>
\* SuccessResponse with the length of the JSON text without its last byte.
SuccessResponseShort(body) ==
    MkResponse(StatusOk, body, Len(body) - 1)

\* The Ok arm of the match on service.serialize(res).
SuccessResponse(body) ==
    MkResponse(StatusOk, body, Len(body))

\* The service's future resolves to res; then() runs service.serialize(res).
HandlerReturn(r, res) ==
    /\ pc[r] = "invoking"
    /\ hres' = [hres EXCEPT ![r] = res]
    /\ LET s == Serialize(res)
           invoked == <<Ev("invoke", IF res.t = "Ok" THEN "ok" ELSE "err"),
                        Ev("encode", "start")>>
       IN  CASE s.t = "Ok" ->
                  Resolve(r, SuccessResponse(s.bytes),
                          invoked \o <<Ev("encode", "ok")>>)
             [] s.t = "Err" ->
                  Resolve(r, error_to_response(s.err),
                          invoked \o <<Ev("encode", "err")>>)
             [] OTHER -> \* unwrap() panics while the future is polled
                  /\ pc' = [pc EXCEPT ![r] = "panicked"]
                  /\ log' = [log EXCEPT ![r] =
                                @ \o invoked \o <<Ev("encode", "panic")>>]
                  /\ inner' = [inner EXCEPT !.strong = @ - 1]
                  /\ UNCHANGED <<buf, resp, emitted>>
    /\ UNCHANGED <<method, nchunks, chunks, concat, decoded>>
\* Drop of a future whose pipeline runs detached from it.
DropDetached(r) ==
    /\ pc[r] \in {"ready", "reading", "invoking"}
    /\ ~(\E i \in DOMAIN log[r] : log[r][i] = Ev("future", "dropped"))
    /\ log' = [log EXCEPT ![r] = @ \o <<Ev("future", "dropped")>>]
    /\ UNCHANGED <<inner, method, pc, buf, nchunks, chunks, concat, decoded,
                   hres, resp, emitted>>

\* The transport drops the future before it has resolved: what it owns (the
\* body stream and its buffer, the service's future, the Arc clone) goes too.
Drop(r) ==
    /\ pc[r] \in {"ready", "reading", "invoking"}
    /\ pc' = [pc EXCEPT ![r] = "dropped"]
    /\ buf' = [buf EXCEPT ![r] = <<>>]
    /\ resp' = [resp EXCEPT ![r] = None]
    /\ log' = [log EXCEPT ![r] = @ \o <<Ev("future", "dropped")>>]
    /\ inner' = [inner EXCEPT !.strong =
                    IF pc[r] = "ready" THEN @ ELSE @ - 1]
    /\ UNCHANGED <<method, nchunks, chunks, concat, decoded, hres, emitted>>

Next ==
    \E r \in Reqs :
        \/ \E m \in Methods : Call(r, m)
        \/ PollReady(r)
        \/ \E c \in Chunks : BodyChunk(r, c)
        \/ BodyEnd(r)
        \/ \E e \in TransportErrors : BodyError(r, e)
        \/ \E res \in HandlerResults : HandlerReturn(r, res)
        \/ Drop(r)

Spec == Init /\ [][Next]_vars

TypeOK ==
    /\ inner.svc = "S" /\ inner.strong \in 1..(NumReqs + 1)
    /\ \A r \in Reqs :
        /\ method[r] \in Methods \cup {"none"}
        /\ pc[r] \in {"idle", "ready", "reading", "invoking", "done",
                      "dropped", "panicked"}
        /\ nchunks[r] \in 0..MaxChunks
        /\ emitted[r] \in 0..1

\* ----------------------------------------------------------------------
\* Properties

Has(r, ev) == \E i \in DOMAIN log[r] : log[r][i] = ev
Count(r, ev) == Cardinality({i \in DOMAIN log[r] : log[r][i] = ev})
Steps == <<"method", "read", "decode", "invoke", "encode">>
StepNo(step) == CHOOSE i \in DOMAIN Steps : Steps[i] = step
Dropped == Ev("future", "dropped")

\* C1: every request whose method is not POST is answered with status 405
\* and the body {"error":"method not allowed"}.
C1_NonPostIs405 ==
    \A r \in Reqs :
        pc[r] = "done" /\ method[r] # "Post" =>
            /\ resp[r].status = 405
            /\ resp[r].body = "{\"error\":\"method not allowed\"}"

\* C2: a POST request whose fully buffered body fails to decode is answered
\* with status 400 and the body {"error":"bad request <decode detail>"}, and
\* the handler is not invoked for it.
C2_DecodeFailureIs400 ==
    \A r \in Reqs :
        concat[r].t = "Ok" /\ ~FromSlice(concat[r].body).ok =>
            /\ pc[r] = "done"
            /\ resp[r].status = 400
            /\ resp[r].body =
                 "{\"error\":\"bad request "
                 \o Escaped(FromSlice(concat[r].body).err) \o "\"}"
            /\ hres[r] = None
            /\ ~Has(r, Ev("invoke", "start"))

\* Two requests answered 400: one with a truncated body, one with a body of
\* the wrong type that came in two chunks.
C2_Witness ==
    \E r1, r2 \in Reqs :
        /\ pc[r1] = "done" /\ concat[r1] = [t |-> "Ok", body |-> <<Quote, "4">>]
        /\ resp[r1].status = 400
        /\ pc[r2] = "done" /\ concat[r2] = [t |-> "Ok", body |-> <<Quote, Quote>>]
        /\ resp[r2].status = 400 /\ nchunks[r2] = 2

C4_HandlerErrorStatus ==
    \A r \in Reqs :
        hres[r].t = "Err" =>
            LET k == IntoError(hres[r].err).kind
            IN  /\ pc[r] = "done"
                /\ decoded[r].t = "Ok"
                /\ resp[r].status =
                     IF k = "NotFound" THEN 404
                     ELSE IF k = "BadRequest" THEN 400
                     ELSE 500

\* One handler error answered 404 and one of no listed kind answered 500.
C4_Witness ==
    \E r1, r2 \in Reqs :
        /\ hres[r1].t = "Err" /\ hres[r1].err.tag = "Missing"
        /\ resp[r1].status = 404
        /\ hres[r2].t = "Err" /\ hres[r2].err.tag = "Other"
        /\ resp[r2].status = 500

\* C5: every response call builds, on the success path and on every error
\* path, has a Content-Length equal to the byte length of its body and the
\* Content-Type application/json.
C5_LengthAndType ==
    \A r \in Reqs :
        pc[r] \in {"ready", "done"} =>
            /\ resp[r].content_length = Len(resp[r].body)
            /\ resp[r].content_type = "application/json"

\* An error response whose message needed escaping, beside a success.
C5_Witness ==
    \E r1, r2 \in Reqs :
        /\ pc[r1] = "done" /\ decoded[r1].t = "Err"
        /\ \E i \in DOMAIN decoded[r1].err.detail :
               decoded[r1].err.detail[i] = Quote
        /\ resp[r1].content_length > 0
        /\ pc[r2] = "done" /\ resp[r2].status = 200

\* C6: every failure of every stage is answered with an error response: no
\* stage panics, and a request whose handler has returned is answered.
C6_NoStagePanics ==
    \A r \in Reqs :
        /\ pc[r] # "panicked"
        /\ hres[r] # None => pc[r] = "done" /\ emitted[r] = 1

\* The step before a step of the pipeline.
PrevStep(step) == Steps[StepNo(step) - 1]

\* A started step is the last event, or is followed by its own completion or
\* by the drop of the future.
OneAtATime(r) ==
    \A i \in DOMAIN log[r] :
        log[r][i][2] = "start" /\ i < Len(log[r]) =>
            \/ log[r][i + 1][1] = log[r][i][1] /\ log[r][i + 1][2] # "start"
            \/ log[r][i + 1] = Dropped

\* C7 as stated: the steps of one request start in the order method check,
\* body read, decode, invoke, encode, each only after the step before it has
\* completed with success, and never two at a time.
C7_StrictOrder ==
    \A r \in Reqs :
        /\ OneAtATime(r)
        /\ \A i \in DOMAIN log[r] :
               log[r][i][2] = "start" =>
                   IF log[r][i][1] = "method" THEN i = 1
                   ELSE i > 1 /\ log[r][i - 1] = Ev(PrevStep(log[r][i][1]), "ok")

\* C7 as the code has it: the same, but the encode function is started once
\* invoke has completed, with success or with failure.
C7_OrderEncodeAfterInvoke ==
    \A r \in Reqs :
        /\ OneAtATime(r)
        /\ \A i \in DOMAIN log[r] :
               log[r][i][2] = "start" =>
                   IF log[r][i][1] = "method" THEN i = 1
                   ELSE /\ i > 1
                        /\ \/ log[r][i - 1] = Ev(PrevStep(log[r][i][1]), "ok")
                           \/ /\ log[r][i][1] = "encode"
                              /\ log[r][i - 1] = Ev("invoke", "err")

\* One request that went through every step with success, one whose encode
\* function was run on a handler failure.
C7_Witness ==
    \E r1, r2 \in Reqs :
        /\ Has(r1, Ev("encode", "ok"))
        /\ Has(r2, Ev("invoke", "err")) /\ Has(r2, Ev("encode", "err"))

\* C8: a request is handled in one pass: its body is read at most once, the
\* decode function runs at most once, the handler is invoked at most once
\* and at most one response is produced.
C8_SinglePass ==
    \A r \in Reqs :
        /\ emitted[r] <= 1
        /\ \A i \in DOMAIN Steps : Count(r, Ev(Steps[i], "start")) <= 1

\* A request answered after an error, with every earlier step run once.
C8_Witness ==
    \E r \in Reqs :
        /\ emitted[r] = 1 /\ resp[r].status = 500
        /\ Count(r, Ev("read", "start")) = 1
        /\ Count(r, Ev("decode", "start")) = 1
        /\ Count(r, Ev("invoke", "start")) = 1

\* C9: once the future of a request has been dropped, during the body read
\* or during the handler invocation, no response is emitted for the request
\* and no step of its pipeline runs or runs again.
C9_DropAbandons ==
    \A r \in Reqs :
        Has(r, Dropped) =>
            /\ log[r][Len(log[r])] = Dropped
            /\ Count(r, Dropped) = 1
            /\ emitted[r] = 0

\* One future dropped during the body read, after a chunk had come in, and
\* one dropped during the handler invocation.
C9_Witness ==
    \E r1, r2 \in Reqs :
        /\ pc[r1] = "dropped" /\ nchunks[r1] > 0
        /\ log[r1][Len(log[r1]) - 1] = Ev("read", "start")
        /\ pc[r2] = "dropped"
        /\ log[r2][Len(log[r2]) - 1] = Ev("invoke", "start")

\* What the adapter is given for request r: its method, what its body
\* stream came to and what the handler returned for it.
InputsOf(r) == <<method[r], concat[r], hres[r]>>

\* The state the pipeline of request r owns.
StateOf(r) ==
    <<method[r], pc[r], buf[r], nchunks[r], chunks[r], concat[r], decoded[r],
      hres[r], resp[r], emitted[r], log[r]>>

\* C10: whatever the interleaving of the requests of one adapter, the
\* response to a request is a function of its own method, body and handler
\* result, a step of one request's pipeline changes nothing of another
\* request, and the adapter leaves the shared handler as it is.
C10_NoCrossRequestState ==
    /\ [](/\ inner.svc = "S"
          /\ \A r1, r2 \in Reqs :
                 /\ pc[r1] = "done" /\ pc[r2] = "done"
                 /\ InputsOf(r1) = InputsOf(r2)
                 => resp[r1] = resp[r2])
    /\ [][\A r1, r2 \in Reqs :
              r1 # r2 /\ StateOf(r1)' # StateOf(r1) =>
                  StateOf(r2)' = StateOf(r2)]_vars

\* Two handler invocations in progress at the same time, both holding a
\* clone of the handle.
C10_Witness ==
    \E r1, r2 \in Reqs :
        /\ r1 # r2
        /\ pc[r1] = "invoking" /\ pc[r2] = "invoking"
        /\ inner.strong = 3


\* Whether request r failed at some stage of its pipeline.
Failed(r) ==
    \/ method[r] \notin {"none", "Post"}
    \/ concat[r].t = "Err"
    \/ decoded[r].t = "Err"
    \/ hres[r].t = "Err"

\* The error the pipeline of a failed request r hands to error_to_response.
ClassifiedOf(r) ==
    IF method[r] # "Post" THEN MethodNotAllowed
    ELSE IF concat[r].t = "Err" THEN InternalError(concat[r].err)
    ELSE IF decoded[r].t = "Err" THEN BadRequest(FromSlice(concat[r].body).err)
    ELSE IntoError(hres[r].err)

\* C11: every response has a status among 200, 400, 404, 405 and 500; the
\* response to a failed request has a status among 400, 404, 405 and 500
\* and the body {"error":"<message>"}, the message being the display text
\* of the classified error.
C11_StatusAndEnvelope ==
    \A r \in Reqs :
        pc[r] \in {"ready", "done"} =>
            /\ resp[r].status \in {200, 400, 404, 405, 500}
            /\ Failed(r) =>
                   /\ resp[r].status \in {400, 404, 405, 500}
                   /\ resp[r].body =
                        "{\"error\":\""
                        \o Escaped(Display(ClassifiedOf(r))) \o "\"}"

\* A handler error answered 404 beside a decode error answered 400 whose
\* message holds escaped quotes.
C11_Witness ==
    \E r1, r2 \in Reqs :
        /\ pc[r1] = "done" /\ hres[r1].t = "Err" /\ resp[r1].status = 404
        /\ resp[r1].body = "{\"error\":\"object widget not found\"}"
        /\ pc[r2] = "done" /\ concat[r2] = [t |-> "Ok", body |-> <<Quote, Quote>>]
        /\ resp[r2].status = 400

\* C12: for a request whose method is not POST the body is never read, the
\* decode function is never run and the handler is never invoked.
C12_NonPostSkipsPipeline ==
    \A r \in Reqs :
        method[r] \notin {"none", "Post"} =>
            /\ pc[r] \in {"ready", "done", "dropped"}
            /\ nchunks[r] = 0 /\ buf[r] = <<>>
            /\ concat[r] = None /\ decoded[r] = None /\ hres[r] = None
            /\ ~Has(r, Ev("read", "start"))
            /\ ~Has(r, Ev("decode", "start"))
            /\ ~Has(r, Ev("invoke", "start"))

\* A GET request answered while a POST request is reading its body.
C12_Witness ==
    \E r1, r2 \in Reqs :
        /\ method[r1] = "Get" /\ pc[r1] = "done" /\ emitted[r1] = 1
        /\ method[r2] = "Post" /\ pc[r2] = "reading" /\ nchunks[r2] > 0

\* C13: a POST request whose body stream fails is answered with status 500
\* and the body {"error":"internal server error <transport error text>"},
\* and neither the decode function nor the handler is run for it.
C13_StreamErrorIs500 ==
    \A r \in Reqs :
        concat[r].t = "Err" =>
            /\ pc[r] = "done"
            /\ resp[r].status = 500
            /\ resp[r].body =
                 "{\"error\":\"internal server error "
                 \o Escaped(concat[r].err) \o "\"}"
            /\ decoded[r] = None /\ hres[r] = None
            /\ ~Has(r, Ev("decode", "start"))
            /\ ~Has(r, Ev("invoke", "start"))

\* A body stream that failed after it had yielded a chunk.
C13_Witness ==
    \E r \in Reqs :
        /\ concat[r].t = "Err" /\ nchunks[r] > 0
        /\ pc[r] = "done" /\ resp[r].status = 500


RECURSIVE ConcatAll(_)
\* The bytes of a sequence of chunks, one after the other.
ConcatAll(cs) == IF cs = <<>> THEN <<>> ELSE Head(cs) \o ConcatAll(Tail(cs))

\* C14: the decode function is run only after the body stream has ended,
\* on the concatenation of all the chunks of the stream in the order they
\* came; it is never run while the stream is still being read.
C14_DecodeOnWholeBody ==
    \A r \in Reqs :
        /\ pc[r] = "reading" =>
               decoded[r] = None /\ ~Has(r, Ev("decode", "start"))
        /\ Has(r, Ev("decode", "start")) =>
               /\ Has(r, Ev("read", "ok"))
               /\ concat[r] = [t |-> "Ok", body |-> ConcatAll(chunks[r])]
               /\ Len(chunks[r]) = nchunks[r]
               /\ decoded[r] = Decode(ConcatAll(chunks[r]))

\* A body decoded after two chunks that are valid JSON one by one but not
\* together, beside a body of no chunk at all.
C14_Witness ==
    \E r1, r2 \in Reqs :
        /\ chunks[r1] = <<<<"4">>, <<Quote>>>> /\ decoded[r1].t = "Err"
        /\ chunks[r2] = <<>> /\ decoded[r2].t = "Err"


\* C15: error_to_response is total: every classified error the pipeline
\* hands to it, of whatever kind, gets a response with a status, and an
\* error of none of the declared kinds gets status 500 with its display
\* text as the message.
C15_MappingTotal ==
    \A r \in Reqs :
        Failed(r) /\ pc[r] # "dropped" =>
            /\ pc[r] \in {"ready", "done"}
            /\ resp[r] # None
            /\ resp[r].status \in {400, 404, 405, 500}
            /\ ClassifiedOf(r).kind = "Msg" =>
                   /\ resp[r].status = 500
                   /\ resp[r].body =
                        "{\"error\":\"" \o Escaped(ClassifiedOf(r).detail)
                        \o "\"}"

\* An error of no declared kind answered 500 with its own text, beside an
\* error of a declared kind.
C15_Witness ==
    \E r1, r2 \in Reqs :
        /\ pc[r1] = "done" /\ hres[r1].t = "Err"
        /\ IntoError(hres[r1].err).kind = "Msg"
        /\ resp[r1] = [status |-> 500, body |-> "{\"error\":\"boom\"}",
                       content_length |-> 16,
                       content_type |-> "application/json"]
        /\ pc[r2] = "done" /\ hres[r2].t = "Err"
        /\ IntoError(hres[r2].err).kind = "BadRequest"

\* A step of the pipeline of request r, the drop of its future apart.
PipelineStep(r) ==
    \/ PollReady(r)
    \/ \E c \in Chunks : BodyChunk(r, c)
    \/ BodyEnd(r)
    \/ \E e \in TransportErrors : BodyError(r, e)
    \/ \E res \in HandlerResults : HandlerReturn(r, res)

\* C16: a request that was handed to call and not cancelled, and whose
\* pipeline has no step left to take, has got exactly one response.
C16_EveryRequestAnswered ==
    \A r \in Reqs :
        /\ method[r] # "none"
        /\ pc[r] # "dropped"
        /\ ~ENABLED PipelineStep(r)
        => emitted[r] = 1

\* C17: a response with status 200 is built only for a POST request whose
\* body was read to the end, decoded, and whose handler was invoked and
\* returned an output that was encoded.
C17_OkOnlyAfterEveryStep ==
    \A r \in Reqs :
        resp[r] # None /\ resp[r].status = 200 =>
            /\ method[r] = "Post"
            /\ concat[r].t = "Ok" /\ Has(r, Ev("read", "ok"))
            /\ FromSlice(concat[r].body).ok /\ decoded[r].t = "Ok"
            /\ Has(r, Ev("decode", "ok"))
            /\ hres[r].t = "Ok" /\ Has(r, Ev("invoke", "ok"))
            /\ ToVec(hres[r].val).ok /\ Has(r, Ev("encode", "ok"))
            /\ resp[r].body = ToVec(hres[r].val).bytes

\* A request answered 200 beside requests that failed at the handler.
C17_Witness ==
    \E r1, r2 \in Reqs :
        /\ resp[r1] # None /\ resp[r1].status = 200 /\ resp[r1].body = "7"
        /\ hres[r2].t = "Err" /\ resp[r2] # None /\ resp[r2].status # 200

====
